---- MODULE Spec2Model ----
(***************************************************************************)
(* Room/session coordinator of the real-time voice backend                 *)
(* (initializeVoice): the room table activePeers, the connection-peer      *)
(* index socketToPeer, the Socket.IO broadcast groups, and one action per  *)
(* event handler.  A join is two steps, split at its only await (the       *)
(* meeting lookup); every other handler runs to completion in one step,    *)
(* as the single-threaded event loop runs it.                              *)
(***************************************************************************)
EXTENDS Naturals, FiniteSets, Sequences, TLC

(* ------------------------------ bounds -------------------------------- *)

\* Connection identifiers, in the order the server hands them out.
SocketOrder == <<"s1", "s2">>

SocketIds == {SocketOrder[i] : i \in 1..Len(SocketOrder)}

MeetingIds == {"M1", "M2"}

\* Peer identifiers a client may send; the empty string is a string too.
PeerInputs == {"", "p1", "p2"}

\* Peer identifiers an earlier connection left behind in meeting M1.
Fillers == {"f1", "f2", "f3", "f4", "f5", "f6", "f7", "f8", "f9"}

\* Meeting lookups in flight at the same time.
MaxPending == 2

\* Names a broadcast can be addressed to: Socket.IO keeps one name space
\* for connection identifiers and for the groups joined with socket.join.
RoomNames == SocketIds \cup MeetingIds

None == "<none>"

(* ------------------------------- state -------------------------------- *)

VARIABLES
    activePeers,   \* Map meetingId -> Set of peer ids (a function on its keys)
    socketToPeer,  \* Map socket.id -> peerId (a function on its keys)
    status,        \* per connection: "idle" (not yet connected), "open", "closed"
    rooms,         \* per connection: the Socket.IO rooms it is in
    pending,       \* join requests waiting on the meeting lookup
    emitted,       \* the packets the last handler sent, each with its addressee
    lastOp         \* which handler ran last, with its inputs and outcome

vars == <<activePeers, socketToPeer, status, rooms, pending, emitted, lastOp>>

(* --------------------------- Map and Set ------------------------------ *)

Empty == [k \in {} |-> {}]

MapHas(map, key) == key \in DOMAIN map

MapSet(map, key, value) ==
    [k \in DOMAIN map \cup {key} |-> IF k = key THEN value ELSE map[k]]

MapDelete(map, key) == [k \in DOMAIN map \ {key} |-> map[k]]

\* JavaScript truthiness of (string | undefined): undefined and '' are falsy.
Truthy(value) == value # None /\ value # ""

\* Map.get: None stands for undefined.
MapGet(map, key) == IF key \in DOMAIN map THEN map[key] ELSE None

(* ------------------------------ delivery ------------------------------ *)

Body == [peerId |-> None, peers |-> {}, meetingId |-> None, message |-> None,
         socketId |-> None, senderSocketId |-> None, participants |-> {},
         payload |-> None]

Packet(to, event, body) == [to |-> to, event |-> event, body |-> body]

\* The connections of a room, as the adapter sees them: open ones only.
Subscribers(st, rms, room) == {s \in SocketIds : st[s] = "open" /\ room \in rms[s]}

\* io.to(room).emit(event, body)
IoToEmit(st, rms, room, event, body) ==
    {Packet(s, event, body) : s \in Subscribers(st, rms, room)}

\* socket.to(room).emit(event, body): the room without the sender
SocketToEmit(st, rms, socket, room, event, body) ==
    {Packet(s, event, body) : s \in Subscribers(st, rms, room) \ {socket}}

\* socket.emit(event, body): one packet for the connection itself, which its
\* transport drops when it has closed
SocketEmit(socket, event, body) == {Packet(socket, event, body)}

\* The record of a handler run: its event, the connection it ran for, its
\* inputs (meetingId also holds a relay's targetSocketId and a media state's
\* roomId; arg holds the lookup's result or the relayed payload), the path
\* it took, and the parity of the number of runs so far.
Op(kind, socket, meetingId, peerId, arg, outcome, seq) ==
    [kind |-> kind, socket |-> socket, meetingId |-> meetingId,
     peerId |-> peerId, arg |-> arg, outcome |-> outcome, seq |-> seq]

Ran(kind, socket, meetingId, peerId, arg, outcome) ==
    lastOp' = Op(kind, socket, meetingId, peerId, arg, outcome, 1 - lastOp.seq)

(* ------------------------------- Init --------------------------------- *)

Init ==
    /\ activePeers = Empty
    /\ socketToPeer = Empty
    /\ status = [s \in SocketIds |-> "idle"]
    /\ rooms = [s \in SocketIds |-> {}]
    /\ pending = {}
    /\ emitted = {}
    /\ lastOp = Op("init", None, None, None, None, None, 0)

(* ------------------------------ handlers ------------------------------ *)

\* io.on('connection'): the next connection identifier comes into being,
\* and Socket.IO puts the connection in the room named by its own id.
Connect ==
    \E i \in 1..Len(SocketOrder) :
        /\ status[SocketOrder[i]] = "idle"
        /\ \A j \in 1..(i - 1) : status[SocketOrder[j]] # "idle"
        /\ status' = [status EXCEPT ![SocketOrder[i]] = "open"]
        /\ rooms' = [rooms EXCEPT ![SocketOrder[i]] = {SocketOrder[i]}]
        /\ emitted' = {}
        /\ Ran("connection", SocketOrder[i], None, None, None, None)
        /\ UNCHANGED <<activePeers, socketToPeer, pending>>

\* The 10 of peers.size >= 10: the most peers a room takes.
MaxPeers == 10

RoomFull_never(peers) == FALSE

RoomFull_offByOne(peers) == Cardinality(peers) > MaxPeers

\* peers.size >= 10
RoomFull(peers) == Cardinality(peers) >= MaxPeers

\* if (!activePeers.has(meetingId)) activePeers.set(meetingId, new Set())
EnsureRoom(map, meetingId) ==
    IF MapHas(map, meetingId) THEN map ELSE MapSet(map, meetingId, {})

\* What db.collection('meetings').doc(meetingId).get() can come back with: no
\* document, a document with status 'active' or 'ended', or a rejection.
ValidatorResults == {"missing", "active", "ended", "throws"}

Rejected_statusIgnored(lookup) == lookup = "missing"

\* !meetingDoc.exists || meetingDoc.data()?.status !== 'active'
Rejected(lookup) == lookup = "missing" \/ lookup # "active"

Request(socket, meetingId, peerId) ==
    [socket |-> socket, meetingId |-> meetingId, peerId |-> peerId]

JoinVoiceRoom_blocking(socket, meetingId, peerId) ==
    /\ status[socket] = "open"
    /\ pending = {}
    /\ pending' = pending \cup {Request(socket, meetingId, peerId)}
    /\ emitted' = {}
    /\ Ran("join-voice-room", socket, meetingId, peerId, None, "awaiting")
    /\ UNCHANGED <<activePeers, socketToPeer, status, rooms>>

\* socket.on('join-voice-room'), up to the await of the meeting lookup.
JoinVoiceRoom(socket, meetingId, peerId) ==
    /\ status[socket] = "open"
    /\ Cardinality(pending) < MaxPending
    /\ Request(socket, meetingId, peerId) \notin pending
    /\ pending' = pending \cup {Request(socket, meetingId, peerId)}
    /\ emitted' = {}
    /\ Ran("join-voice-room", socket, meetingId, peerId, None, "awaiting")
    /\ UNCHANGED <<activePeers, socketToPeer, status, rooms>>

VoiceError_toAll(socket, message) ==
    {Packet(s, "voice-error", [Body EXCEPT !.message = message]) :
        s \in {c \in SocketIds : status[c] = "open"}}

VoiceError_silent(socket, message) == {}

\* socket.emit('voice-error', message)
VoiceError(socket, message) ==
    SocketEmit(socket, "voice-error", [Body EXCEPT !.message = message])

\* { socketId: p, odiserId: p, displayName: 'User' } for every other peer
Participants(peers, peerId) ==
    {[socketId |-> p, odiserId |-> p] : p \in peers \ {peerId}}

JoinEmits_toWholeRoom(rms, peers, socket, meetingId, peerId) ==
    IoToEmit(status, rms, meetingId, "peer-joined", [Body EXCEPT !.peerId = peerId])
    \cup SocketEmit(socket, "voice-joined",
                 [Body EXCEPT !.peers = peers \ {peerId}, !.meetingId = meetingId])
    \cup SocketEmit(socket, "room-participants",
                 [Body EXCEPT !.participants = Participants(peers, peerId)])
    \cup SocketToEmit(status, rms, socket, meetingId, "participant-joined",
                 [Body EXCEPT !.socketId = socket, !.peerId = peerId])

\* The four emits of a successful join, after socket.join and peers.add.
JoinEmits(rms, peers, socket, meetingId, peerId) ==
    SocketToEmit(status, rms, socket, meetingId, "peer-joined",
                 [Body EXCEPT !.peerId = peerId])
    \cup SocketEmit(socket, "voice-joined",
                 [Body EXCEPT !.peers = peers \ {peerId}, !.meetingId = meetingId])
    \cup SocketEmit(socket, "room-participants",
                 [Body EXCEPT !.participants = Participants(peers, peerId)])
    \cup SocketToEmit(status, rms, socket, meetingId, "participant-joined",
                 [Body EXCEPT !.socketId = socket, !.peerId = peerId])

\* socket.on('join-voice-room'), from the await to the end of the handler.
JoinResume(req, lookup) ==
    LET socket == req.socket
        meetingId == req.meetingId
        peerId == req.peerId
        withRoom == EnsureRoom(activePeers, meetingId)
        peers == withRoom[meetingId] \cup {peerId}
        joined == [rooms EXCEPT ![socket] = @ \cup {meetingId}]
    IN  /\ req \in pending
        /\ pending' = pending \ {req}
        /\ UNCHANGED status
        /\ IF lookup = "throws" THEN
               /\ emitted' = VoiceError(socket, "Internal server error")
               /\ Ran("join-resume", socket, meetingId, peerId, lookup, "error")
               /\ UNCHANGED <<activePeers, socketToPeer, rooms>>
           ELSE IF Rejected(lookup) THEN
               /\ emitted' = VoiceError(socket, "Meeting not found or inactive")
               /\ Ran("join-resume", socket, meetingId, peerId, lookup, "inactive")
               /\ UNCHANGED <<activePeers, socketToPeer, rooms>>
           ELSE IF RoomFull(withRoom[meetingId]) THEN
               /\ activePeers' = withRoom
               /\ emitted' = VoiceError(socket, "Meeting full (maximum 10 users)")
               /\ Ran("join-resume", socket, meetingId, peerId, lookup, "full")
               /\ UNCHANGED <<socketToPeer, rooms>>
           ELSE
               /\ rooms' = joined
               /\ activePeers' = MapSet(withRoom, meetingId, peers)
               /\ socketToPeer' = MapSet(socketToPeer, socket, peerId)
               /\ emitted' = JoinEmits(joined, peers, socket, meetingId, peerId)
               /\ Ran("join-resume", socket, meetingId, peerId, lookup, "joined")

PeerDisconnected_beforeLeave(st, rms, meetingId, peerId) ==
    IoToEmit(st, rooms, meetingId, "peer-disconnected", [Body EXCEPT !.peerId = peerId])

\* io.to(meetingId).emit('peer-disconnected', peerId)
PeerDisconnected(st, rms, meetingId, peerId) ==
    IoToEmit(st, rms, meetingId, "peer-disconnected", [Body EXCEPT !.peerId = peerId])

DropIfEmpty_kept(map, meetingId) == map

\* if (peers.size === 0) activePeers.delete(meetingId)
DropIfEmpty(map, meetingId) ==
    IF map[meetingId] = {} THEN MapDelete(map, meetingId) ELSE map

\* socket.on('leave-voice-room')
LeaveVoiceRoom(socket, meetingId, peerId) ==
    LET left == [rooms EXCEPT ![socket] = @ \ {meetingId}]
    IN  /\ status[socket] = "open"
        /\ rooms' = left
        /\ IF MapHas(activePeers, meetingId) THEN
               /\ activePeers' =
                      DropIfEmpty(MapSet(activePeers, meetingId,
                                         activePeers[meetingId] \ {peerId}), meetingId)
               /\ emitted' = PeerDisconnected(status, left, meetingId, peerId)
               /\ Ran("leave-voice-room", socket, meetingId, peerId, None,
                      IF activePeers[meetingId] \ {peerId} = {}
                      THEN "room-deleted" ELSE "room-kept")
           ELSE
               /\ emitted' = {}
               /\ Ran("leave-voice-room", socket, meetingId, peerId, None, "no-room")
               /\ UNCHANGED activePeers
        /\ socketToPeer' = MapDelete(socketToPeer, socket)
        /\ UNCHANGED <<status, pending>>

Cleaned_unguarded(map, peerId) == DOMAIN map

\* The meetings a disconnect cleans: peerId && peers.has(peerId)
Cleaned(map, peerId) == {m \in DOMAIN map : Truthy(peerId) /\ peerId \in map[m]}

\* The loop of the disconnect handler over the room table.
Cleanup(map, peerId) ==
    [m \in {k \in DOMAIN map : ~(k \in Cleaned(map, peerId) /\ map[k] = {peerId})}
        |-> IF m \in Cleaned(map, peerId) THEN map[m] \ {peerId} ELSE map[m]]

\* socket.on('disconnect'): Socket.IO has taken the connection out of all
\* its rooms and out of the namespace before the handler runs.
Disconnect(socket) ==
    LET peerId == MapGet(socketToPeer, socket)
        closed == [status EXCEPT ![socket] = "closed"]
        left == [rooms EXCEPT ![socket] = {}]
    IN  /\ status[socket] = "open"
        /\ status' = closed
        /\ rooms' = left
        /\ activePeers' = Cleanup(activePeers, peerId)
        /\ emitted' = UNION {PeerDisconnected(closed, left, m, peerId) :
                                m \in Cleaned(activePeers, peerId)}
        /\ socketToPeer' = MapDelete(socketToPeer, socket)
        /\ Ran("disconnect", socket, None, peerId, None,
               IF Cleaned(activePeers, peerId) = {} THEN "nothing" ELSE "cleaned")
        /\ UNCHANGED pending

\* peerServer.on('disconnect'): the peer leaves every room that has it; the
\* rooms are kept.
PeerServerDisconnect(clientId) ==
    /\ activePeers' = [m \in DOMAIN activePeers |-> activePeers[m] \ {clientId}]
    /\ emitted' = UNION {PeerDisconnected(status, rooms, m, clientId) :
                            m \in {k \in DOMAIN activePeers : clientId \in activePeers[k]}}
    /\ Ran("peer-disconnect", None, None, clientId, None, None)
    /\ UNCHANGED <<socketToPeer, status, rooms, pending>>

EndMeeting_clearsRoom(socket, meetingId) ==
    /\ status[socket] = "open"
    /\ emitted' = IoToEmit(status, rooms, meetingId, "force-disconnect", Body)
    /\ activePeers' = MapDelete(activePeers, meetingId)
    /\ Ran("end-meeting", socket, meetingId, None, None, None)
    /\ UNCHANGED <<socketToPeer, status, rooms, pending>>

\* socket.on('end-meeting')
EndMeeting(socket, meetingId) ==
    /\ status[socket] = "open"
    /\ emitted' = IoToEmit(status, rooms, meetingId, "force-disconnect", Body)
    /\ Ran("end-meeting", socket, meetingId, None, None, None)
    /\ UNCHANGED <<activePeers, socketToPeer, status, rooms, pending>>

RelayEvents == {"webrtc-offer", "webrtc-answer", "ice-candidate"}

\* What a client may put in offer, answer or candidate.
Payloads == {"sdp"}

Relay_senderFromTarget(socket, event, targetSocketId, payload) ==
    /\ status[socket] = "open"
    /\ emitted' = IoToEmit(status, rooms, targetSocketId, event,
                           [Body EXCEPT !.senderSocketId = targetSocketId,
                                        !.payload = payload])
    /\ Ran(event, socket, targetSocketId, None, payload, None)
    /\ UNCHANGED <<activePeers, socketToPeer, status, rooms, pending>>

Relay_membersOnly(socket, event, targetSocketId, payload) ==
    /\ status[socket] = "open"
    /\ emitted' = IF MapHas(socketToPeer, socket)
                  THEN IoToEmit(status, rooms, targetSocketId, event,
                                [Body EXCEPT !.senderSocketId = socket,
                                             !.payload = payload])
                  ELSE {}
    /\ Ran(event, socket, targetSocketId, None, payload, None)
    /\ UNCHANGED <<activePeers, socketToPeer, status, rooms, pending>>

\* socket.on('webrtc-offer'), socket.on('webrtc-answer'),
\* socket.on('ice-candidate'): the same handler up to the event name.
Relay(socket, event, targetSocketId, payload) ==
    /\ status[socket] = "open"
    /\ emitted' = IoToEmit(status, rooms, targetSocketId, event,
                           [Body EXCEPT !.senderSocketId = socket, !.payload = payload])
    /\ Ran(event, socket, targetSocketId, None, payload, None)
    /\ UNCHANGED <<activePeers, socketToPeer, status, rooms, pending>>

MediaStateChange_toSenderToo(socket, roomId, payload) ==
    /\ status[socket] = "open"
    /\ emitted' = IoToEmit(status, rooms, roomId, "media-state-changed",
                           [Body EXCEPT !.socketId = socket, !.payload = payload])
    /\ Ran("media-state-change", socket, roomId, None, payload, None)
    /\ UNCHANGED <<activePeers, socketToPeer, status, rooms, pending>>

\* socket.on('media-state-change')
MediaStateChange(socket, roomId, payload) ==
    /\ status[socket] = "open"
    /\ emitted' = SocketToEmit(status, rooms, socket, roomId, "media-state-changed",
                               [Body EXCEPT !.socketId = socket, !.payload = payload])
    /\ Ran("media-state-change", socket, roomId, None, payload, None)
    /\ UNCHANGED <<activePeers, socketToPeer, status, rooms, pending>>

\* One step of the server on the inputs in: any handler, on any input.
Step(in) ==
    \/ Connect
    \/ \E s \in SocketIds, j \in in.joins : JoinVoiceRoom(s, j[1], j[2])
    \/ \E req \in pending, lookup \in ValidatorResults : JoinResume(req, lookup)
    \/ \E s \in SocketIds, l \in in.leaves : LeaveVoiceRoom(s, l[1], l[2])
    \/ \E s \in SocketIds : Disconnect(s)
    \/ \E p \in in.clients : PeerServerDisconnect(p)
    \/ \E s \in SocketIds, m \in in.ends : EndMeeting(s, m)
    \/ \E s \in SocketIds, e \in in.events, t \in in.targets, x \in Payloads :
           Relay(s, e, t, x)
    \/ \E s \in SocketIds, m \in in.mediaRooms, x \in Payloads : MediaStateChange(s, m, x)

\* One meeting, two peer ids, every handler.
OneRoom ==
    [joins |-> {"M1"} \X {"p1", "p2"}, leaves |-> {"M1"} \X {"p1", "p2"},
     clients |-> {"p1"}, ends |-> {"M1"}, events |-> RelayEvents,
     targets |-> {"s1", "s2", "M1"}, mediaRooms |-> {"M1"}]

Next == Step(OneRoom)

Spec == Init /\ [][Next]_vars

\* An earlier connection, closed since, joined these peer ids to M1 and its
\* disconnect removed only the last one it was bound to.
InitFull ==
    /\ activePeers = MapSet(Empty, "M1", Fillers)
    /\ socketToPeer = Empty
    /\ status = [s \in SocketIds |-> "idle"]
    /\ rooms = [s \in SocketIds |-> {}]
    /\ pending = {}
    /\ emitted = {}
    /\ lastOp = Op("init", None, None, None, None, None, 0)

NextFull == Step(OneRoom)

SpecFull == InitFull /\ [][NextFull]_vars

\* One meeting, the empty peer id beside an ordinary one.
EmptyId ==
    [joins |-> {"M1"} \X {"", "p1"}, leaves |-> {"M1"} \X {"", "p1"},
     clients |-> {"p1"}, ends |-> {"M1"}, events |-> {"webrtc-offer"},
     targets |-> {"s1", "s2", "M1"}, mediaRooms |-> {"M1"}]

NextEmptyId == Step(EmptyId)

SpecEmptyId == Init /\ [][NextEmptyId]_vars

\* Two meetings, one peer id used in both.
TwoRooms ==
    [joins |-> MeetingIds \X {"p1"}, leaves |-> MeetingIds \X {"p1"},
     clients |-> {"p1"}, ends |-> MeetingIds, events |-> {"webrtc-offer"},
     targets |-> {"s1", "M2"}, mediaRooms |-> {"M2"}]

NextTwoRooms == Step(TwoRooms)

SpecTwoRooms == Init /\ [][NextTwoRooms]_vars

(* ------------- the revision of the service without try/catch ---------- *)

\* The two emits of a successful join in that revision: voice-joined carries
\* the peers only, and there is no room-participants or participant-joined.
EarlyJoinEmits(rms, peers, socket, meetingId, peerId) ==
    SocketToEmit(status, rms, socket, meetingId, "peer-joined",
                 [Body EXCEPT !.peerId = peerId])
    \cup SocketEmit(socket, "voice-joined", [Body EXCEPT !.peers = peers \ {peerId}])

\* socket.on('join-voice-room') of that revision, from the await to the end.
\* Nothing catches a rejected lookup: the handler's promise rejects, none of
\* its statements after the await runs, and nothing is sent.
EarlyJoinResume(req, lookup) ==
    LET socket == req.socket
        meetingId == req.meetingId
        peerId == req.peerId
        withRoom == EnsureRoom(activePeers, meetingId)
        peers == withRoom[meetingId] \cup {peerId}
        joined == [rooms EXCEPT ![socket] = @ \cup {meetingId}]
    IN  /\ req \in pending
        /\ pending' = pending \ {req}
        /\ UNCHANGED <<status, socketToPeer>>
        /\ IF lookup = "throws" THEN
               /\ emitted' = {}
               /\ Ran("join-resume", socket, meetingId, peerId, lookup,
                      "unhandled-rejection")
               /\ UNCHANGED <<activePeers, rooms>>
           ELSE IF Rejected(lookup) THEN
               /\ emitted' = VoiceError(socket, "Meeting not found or inactive")
               /\ Ran("join-resume", socket, meetingId, peerId, lookup, "inactive")
               /\ UNCHANGED <<activePeers, rooms>>
           ELSE IF RoomFull(withRoom[meetingId]) THEN
               /\ activePeers' = withRoom
               /\ emitted' = VoiceError(socket, "Meeting full (maximum 10 users)")
               /\ Ran("join-resume", socket, meetingId, peerId, lookup, "full")
               /\ UNCHANGED rooms
           ELSE
               /\ rooms' = joined
               /\ activePeers' = MapSet(withRoom, meetingId, peers)
               /\ emitted' = EarlyJoinEmits(joined, peers, socket, meetingId, peerId)
               /\ Ran("join-resume", socket, meetingId, peerId, lookup, "joined")

\* socket.on('leave-voice-room') of that revision: the room entry is kept.
EarlyLeaveVoiceRoom(socket, meetingId, peerId) ==
    LET left == [rooms EXCEPT ![socket] = @ \ {meetingId}]
    IN  /\ status[socket] = "open"
        /\ rooms' = left
        /\ IF MapHas(activePeers, meetingId) THEN
               /\ activePeers' = MapSet(activePeers, meetingId,
                                        activePeers[meetingId] \ {peerId})
               /\ emitted' = PeerDisconnected(status, left, meetingId, peerId)
               /\ Ran("leave-voice-room", socket, meetingId, peerId, None, "room-kept")
           ELSE
               /\ emitted' = {}
               /\ Ran("leave-voice-room", socket, meetingId, peerId, None, "no-room")
               /\ UNCHANGED activePeers
        /\ UNCHANGED <<socketToPeer, status, pending>>

\* socket.on('disconnect') of that revision: it looks for the connection's
\* own identifier among the peer ids.
EarlyDisconnect(socket) ==
    LET closed == [status EXCEPT ![socket] = "closed"]
        left == [rooms EXCEPT ![socket] = {}]
        cleaned == {m \in DOMAIN activePeers : socket \in activePeers[m]}
    IN  /\ status[socket] = "open"
        /\ status' = closed
        /\ rooms' = left
        /\ activePeers' = [m \in DOMAIN activePeers |-> activePeers[m] \ {socket}]
        /\ emitted' = UNION {PeerDisconnected(closed, left, m, socket) : m \in cleaned}
        /\ Ran("disconnect", socket, None, None, None,
               IF cleaned = {} THEN "nothing" ELSE "cleaned")
        /\ UNCHANGED <<socketToPeer, pending>>

\* One meeting; a client may send its connection identifier as its peer id.
EarlyRoom == [joins |-> {"M1"} \X {"p1", "s1"}, leaves |-> {"M1"} \X {"p1", "s1"},
              clients |-> {"p1"}]

NextEarly ==
    \/ Connect
    \/ \E s \in SocketIds, j \in EarlyRoom.joins : JoinVoiceRoom(s, j[1], j[2])
    \/ \E req \in pending, lookup \in ValidatorResults : EarlyJoinResume(req, lookup)
    \/ \E s \in SocketIds, l \in EarlyRoom.leaves : EarlyLeaveVoiceRoom(s, l[1], l[2])
    \/ \E s \in SocketIds : EarlyDisconnect(s)
    \/ \E p \in EarlyRoom.clients : PeerServerDisconnect(p)

SpecEarly == Init /\ [][NextEarly]_vars

(* ------------------------------ progress ------------------------------ *)

\* The promise of a pending meeting lookup settles: the join that awaits it
\* resumes with the document or with the rejection.
LookupCompletes ==
    \E req \in pending, lookup \in ValidatorResults : JoinResume(req, lookup)

\* The service with every pending lookup completing in the end. What the
\* clients send, and when they disconnect, is theirs to decide.
SpecLive == Init /\ [][Next]_vars /\ WF_vars(LookupCompletes)

(* ------------------------------- claims ------------------------------- *)

\* The peers of a meeting's room; none when the room table has no such key.
MembersOf(map, meetingId) == IF MapHas(map, meetingId) THEN map[meetingId] ELSE {}

ErrorPacket(socket, message) ==
    Packet(socket, "voice-error", [Body EXCEPT !.message = message])

\* A join handler has just run to its end in this step.
JoinResumed == lastOp'.kind = "join-resume"

\* The handler sends this error to the joiner and nothing else to anybody.
OnlyErrorToJoiner(message) == emitted' = {ErrorPacket(lastOp'.socket, message)}

\* C1: in every reachable state every room holds at most 10 distinct peer
\* ids, whatever the interleaving of joins, leaves, disconnects and pending
\* meeting lookups.
C1_AtMostTen ==
    \A m \in DOMAIN activePeers : Cardinality(activePeers[m]) <= 10

\* A full room while two connections have lookups in flight for it.
C1_Witness ==
    /\ Cardinality(MembersOf(activePeers, "M1")) = 10
    /\ \E r1 \in pending, r2 \in pending :
           r1.socket # r2.socket /\ r1.meetingId = "M1" /\ r2.meetingId = "M1"

\* C2: with 9 peers in the room and two joins in flight for two further
\* peer ids, the join that resumes first takes the tenth place and the
\* other one is refused with 'Meeting full (maximum 10 users)': a resumed
\* join of an active meeting is admitted exactly when the room, as it is at
\* that step, holds fewer than 10 peers.
C2_LastSlotRace ==
    [][JoinResumed /\ lastOp'.arg = "active" =>
          LET m == lastOp'.meetingId
              size == Cardinality(MembersOf(activePeers, m))
          IN  /\ (lastOp'.outcome = "joined") = (size < 10)
              /\ (lastOp'.outcome = "full") = (size >= 10)
              /\ size = 9 /\ lastOp'.peerId \notin MembersOf(activePeers, m)
                     => Cardinality(activePeers'[m]) = 10
              /\ ( /\ lastOp.kind = "join-resume"
                   /\ lastOp.outcome = "joined"
                   /\ lastOp.meetingId = m
                   /\ size = 10 )
                     => /\ lastOp'.outcome = "full"
                        /\ OnlyErrorToJoiner("Meeting full (maximum 10 users)")
                        /\ activePeers' = activePeers
    ]_vars

\* The loser of the race has just been refused; the winner holds the tenth
\* place.
C2_Witness ==
    /\ lastOp.kind = "join-resume" /\ lastOp.arg = "active" /\ lastOp.outcome = "full"
    /\ Cardinality(MembersOf(activePeers, lastOp.meetingId)) = 10
    /\ lastOp.peerId \notin MembersOf(activePeers, lastOp.meetingId)
    /\ \E c \in DOMAIN socketToPeer :
           /\ c # lastOp.socket
           /\ socketToPeer[c] \in MembersOf(activePeers, lastOp.meetingId) \ Fillers
    /\ emitted = {ErrorPacket(lastOp.socket, "Meeting full (maximum 10 users)")}

\* C3: a join of an active meeting whose room already holds 10 peers sends
\* 'Meeting full (maximum 10 users)' to the joiner and changes nothing: the
\* room table, the index and the broadcast groups stay as they were.
C3_FullRoomRefuses ==
    [][( /\ JoinResumed
         /\ lastOp'.arg = "active"
         /\ Cardinality(MembersOf(activePeers, lastOp'.meetingId)) >= 10 )
          => /\ OnlyErrorToJoiner("Meeting full (maximum 10 users)")
             /\ UNCHANGED <<activePeers, socketToPeer, rooms>>
             /\ Cardinality(activePeers'[lastOp'.meetingId]) = 10
    ]_vars

\* An eleventh join has been refused and the error has reached the joiner.
C3_Witness ==
    /\ lastOp.kind = "join-resume" /\ lastOp.outcome = "full"
    /\ ErrorPacket(lastOp.socket, "Meeting full (maximum 10 users)") \in emitted
    /\ Cardinality(MembersOf(activePeers, lastOp.meetingId)) = 10

\* C4: a join of a meeting the lookup reports missing or not active sends
\* 'Meeting not found or inactive' to the joiner and changes nothing: no
\* room entry, no peer, no binding, no group membership, no peer-joined.
C4_InactiveRefuses ==
    [][(JoinResumed /\ lastOp'.arg \in {"missing", "ended"})
          => /\ OnlyErrorToJoiner("Meeting not found or inactive")
             /\ UNCHANGED <<activePeers, socketToPeer, rooms>>
    ]_vars

\* A join of an ended meeting has been refused.
C4_Witness ==
    /\ lastOp.kind = "join-resume" /\ lastOp.arg = "ended"
    /\ emitted = {ErrorPacket(lastOp.socket, "Meeting not found or inactive")}
    /\ ~MapHas(activePeers, lastOp.meetingId)

DisconnectedPacket(socket, peerId) ==
    Packet(socket, "peer-disconnected", [Body EXCEPT !.peerId = peerId])

\* C5: when a connection bound to peer P by a successful join disconnects
\* without leaving, then after the disconnect handler P is in no room, and
\* the connections still in each meeting P was in get peer-disconnected(P).
C5_DisconnectCleans ==
    [][(lastOp'.kind = "disconnect" /\ MapHas(socketToPeer, lastOp'.socket)) =>
          LET P == socketToPeer[lastOp'.socket]
          IN  /\ \A m \in DOMAIN activePeers' : P \notin activePeers'[m]
              /\ \A m \in DOMAIN activePeers :
                     P \in activePeers[m] =>
                         \A s \in Subscribers(status', rooms', m) :
                             DisconnectedPacket(s, P) \in emitted'
    ]_vars

\* C6: leaving twice, or disconnecting after leaving, sends no second
\* departure notice: a leave-voice-room that repeats the one before it for
\* the same meeting and peer, and a disconnect of the connection that has
\* just left, deliver no peer-disconnected for that peer.
C6_DepartureOnce ==
    [][( /\ lastOp.kind = "leave-voice-room"
         /\ \/ /\ lastOp'.kind = "leave-voice-room"
               /\ lastOp'.socket = lastOp.socket
               /\ lastOp'.meetingId = lastOp.meetingId
               /\ lastOp'.peerId = lastOp.peerId
            \/ /\ lastOp'.kind = "disconnect"
               /\ lastOp'.socket = lastOp.socket )
          => \A s \in SocketIds : DisconnectedPacket(s, lastOp.peerId) \notin emitted'
    ]_vars

\* C7: when the last peer of a room leaves, the room entry is deleted: after
\* leave-voice-room(M, P) on a room holding nobody but P, M is no key of the
\* room table (its member set is empty), and so a join(M, P) that made the
\* room {P}, followed at once by the same connection's leave(M, P), leaves
\* no entry for M.
C7_LastLeaveDeletesRoom ==
    [][lastOp'.kind = "leave-voice-room" =>
          LET m == lastOp'.meetingId
              p == lastOp'.peerId
          IN  /\ (MapHas(activePeers, m) /\ activePeers[m] \subseteq {p})
                     => ~MapHas(activePeers', m) /\ MembersOf(activePeers', m) = {}
              /\ ( /\ lastOp.kind = "join-resume" /\ lastOp.outcome = "joined"
                   /\ lastOp.socket = lastOp'.socket
                   /\ lastOp.meetingId = m /\ lastOp.peerId = p
                   /\ activePeers[m] = {p} )
                     => ~MapHas(activePeers', m)
    ]_vars

\* The last peer has just left and its room is gone.
C7_Witness ==
    /\ lastOp.kind = "leave-voice-room" /\ lastOp.outcome = "room-deleted"
    /\ ~MapHas(activePeers, lastOp.meetingId)
    /\ ~MapHas(socketToPeer, lastOp.socket)

\* C8: no room entry holds an empty peer set between handler runs, after any
\* sequence of join, leave, socket disconnect and PeerJS-server disconnect.
C8_NoEmptyRoom ==
    \A m \in DOMAIN activePeers : activePeers[m] # {}

\* C9: on a successful join(M, P) by connection c, c is sent one
\* voice-joined, whose peers are the room just after the insertion less P
\* and whose meetingId is M; every other connection in M's group gets
\* peer-joined(P), no connection outside it does, and c does not.
C9_JoinReplies ==
    [][(JoinResumed /\ lastOp'.outcome = "joined") =>
          LET c == lastOp'.socket
              m == lastOp'.meetingId
              p == lastOp'.peerId
              joined == {pkt \in emitted' : pkt.event = "voice-joined"}
              told == {pkt.to : pkt \in {q \in emitted' : q.event = "peer-joined"}}
          IN  /\ joined = {Packet(c, "voice-joined",
                                  [Body EXCEPT !.peers = activePeers'[m] \ {p},
                                               !.meetingId = m])}
              /\ told = Subscribers(status', rooms', m) \ {c}
              /\ \A pkt \in emitted' : pkt.event = "peer-joined" => pkt.body.peerId = p
              /\ p \in activePeers'[m]
    ]_vars

\* The second peer has joined: it is told of the first, the first of it.
C9_Witness ==
    /\ lastOp.kind = "join-resume" /\ lastOp.outcome = "joined"
    /\ lastOp.socket = "s2" /\ lastOp.peerId = "p2"
    /\ Packet("s2", "voice-joined",
              [Body EXCEPT !.peers = {"p1"}, !.meetingId = "M1"]) \in emitted
    /\ Packet("s1", "peer-joined", [Body EXCEPT !.peerId = "p2"]) \in emitted

\* C10: a webrtc-offer, webrtc-answer or ice-candidate relayed with
\* targetSocketId T reaches no connection but the one whose identifier is T,
\* whatever T the caller sends.
C10_RelayOnlyToTarget ==
    [][lastOp'.kind \in RelayEvents =>
          \A pkt \in emitted' : pkt.to = lastOp'.meetingId
    ]_vars

\* C11: a relay whose targetSocketId names no open connection delivers
\* nothing to anyone, answers the sender with nothing, queues nothing, and
\* leaves the room table and the index as they were.
C11_UnknownTargetDropped ==
    [][( /\ lastOp'.kind \in RelayEvents
         /\ ~(lastOp'.meetingId \in SocketIds /\ status[lastOp'.meetingId] = "open") )
          => /\ emitted' = {}
             /\ UNCHANGED <<activePeers, socketToPeer, rooms, pending>>
    ]_vars

\* The three messages the join handler passes to socket.emit('voice-error').
VoiceErrorMessages ==
    { "Meeting not found or inactive",
      "Meeting full (maximum 10 users)",
      "Internal server error" }

\* C12: every voice-error is sent to the connection whose join request the
\* handler is serving and to no other connection, and its message is one of
\* the three fixed strings.
C12_ErrorOnlyToJoiner ==
    \A pkt \in emitted :
        pkt.event = "voice-error" =>
            /\ lastOp.kind = "join-resume"
            /\ pkt.to = lastOp.socket
            /\ pkt.body.message \in VoiceErrorMessages

\* A join has been refused while another connection is open and in the
\* meeting's group: the error went to the joiner alone.
C12_Witness ==
    /\ lastOp.kind = "join-resume" /\ lastOp.outcome = "full"
    /\ emitted = {ErrorPacket(lastOp.socket, "Meeting full (maximum 10 users)")}
    /\ \E c \in SocketIds \ {lastOp.socket} :
           c \in Subscribers(status, rooms, lastOp.meetingId)

\* C13: when the meeting lookup of a join rejects, the joiner is sent
\* voice-error 'Internal server error' and nothing else is sent (no
\* voice-joined, no peer-joined), and the room table, the index and the
\* groups are left as they were, so that the other connections' later
\* events meet the state they would have met without the failed join.
C13_LookupFailureCaught ==
    [][(JoinResumed /\ lastOp'.arg = "throws")
          => /\ OnlyErrorToJoiner("Internal server error")
             /\ UNCHANGED <<activePeers, socketToPeer, rooms, status>>
    ]_vars

\* C14: a leave-voice-room(M, P) with P not in M's room, or with no room
\* entry for M, changes nothing in the room table and broadcasts no
\* peer-disconnected.
C14_LeaveOfAbsentIsNoOp ==
    [][( /\ lastOp'.kind = "leave-voice-room"
         /\ lastOp'.peerId \notin MembersOf(activePeers, lastOp'.meetingId) )
          => /\ UNCHANGED activePeers
             /\ \A pkt \in emitted' : pkt.event # "peer-disconnected"
    ]_vars

\* The open connections bound to peer p that are in meeting m's group.
BoundIn(m, p) ==
    {c \in DOMAIN socketToPeer :
        status[c] = "open" /\ socketToPeer[c] = p /\ m \in rooms[c]}

\* C15: in every reachable state the index gives a connection one peer at
\* most (it is a map keyed by connection), and within one room no peer id is
\* bound to more than one open connection.
C15_OneBindingPerPeer ==
    /\ DOMAIN socketToPeer \subseteq SocketIds
    /\ \A m \in DOMAIN activePeers :
           \A p \in activePeers[m] : Cardinality(BoundIn(m, p)) <= 1

\* The meetings connection c has joined and not left whose room holds the
\* peer c is bound to.
MeetingsOf(c) ==
    {m \in MeetingIds :
        /\ m \in rooms[c]
        /\ MapHas(socketToPeer, c)
        /\ socketToPeer[c] \in MembersOf(activePeers, m)}

\* C16: in every reachable state an open connection is in no room or, by its
\* own joins, in the room of one meeting only: none answers for peers in the
\* rooms of two meetings at once.
C16_OneMeetingPerConnection ==
    \A c \in SocketIds : status[c] = "open" => Cardinality(MeetingsOf(c)) <= 1

\* C17: once a connection's disconnect handler has run, no later step binds
\* that connection in the index and no later step run for it adds a peer to
\* a room, its own join resuming after the disconnect included.
C17_DisconnectedIsTerminal ==
    [][\A c \in SocketIds :
          status[c] = "closed" =>
              /\ ~MapHas(socketToPeer', c)
              /\ lastOp'.socket = c =>
                     \A m \in MeetingIds :
                         MembersOf(activePeers', m) \subseteq MembersOf(activePeers, m)
    ]_vars

\* The peer the index gives the connection is in no room of the table.
InNoRoom(map, peerId) == \A m \in DOMAIN map : peerId \notin map[m]

\* C18 as stated: the disconnect of a connection without a binding, or of
\* one whose bound peer is in no room, changes neither the room table nor
\* the index and sends no peer-disconnected.
C18_AsStated ==
    [][( /\ lastOp'.kind = "disconnect"
         /\ InNoRoom(activePeers, MapGet(socketToPeer, lastOp'.socket)) )
          => /\ UNCHANGED <<activePeers, socketToPeer>>
             /\ emitted' = {}
    ]_vars

\* C18: the disconnect of a connection without a binding changes neither
\* the room table nor the index, sends nothing and ends without an error;
\* when the connection is bound to a peer that is in no room, the room table
\* is unchanged and nothing is sent all the same, and the index loses that
\* connection's binding and nothing else.
C18_IdleDisconnectCleansBinding ==
    [][( /\ lastOp'.kind = "disconnect"
         /\ InNoRoom(activePeers, MapGet(socketToPeer, lastOp'.socket)) )
          => /\ UNCHANGED activePeers
             /\ emitted' = {}
             /\ lastOp'.outcome = "nothing"
             /\ socketToPeer' = MapDelete(socketToPeer, lastOp'.socket)
             /\ ~MapHas(socketToPeer, lastOp'.socket) => UNCHANGED socketToPeer
    ]_vars

\* A connection bound to a peer that had been taken out of its room has
\* disconnected while another connection was still in the meeting's group.
C18_Witness ==
    /\ lastOp.kind = "disconnect" /\ lastOp.outcome = "nothing"
    /\ lastOp.peerId \in PeerInputs
    /\ InNoRoom(activePeers, lastOp.peerId)
    /\ ~MapHas(socketToPeer, lastOp.socket)
    /\ \E c \in SocketIds : Subscribers(status, rooms, "M1") = {c}
    /\ emitted = {}

\* C19: a leave-voice-room(M, P) from the connection bound to P and in M's
\* group, with P in M's room, takes P out of the room and the connection out
\* of the index, sends peer-disconnected(P) once to each connection still in
\* M's group and not to the leaver, and leaves the connection open and free
\* to join again: a join of its own that resumes next is admitted.
C19_LeaveByBoundConnection ==
    [][( /\ lastOp'.kind = "leave-voice-room"
         /\ MapGet(socketToPeer, lastOp'.socket) = lastOp'.peerId
         /\ lastOp'.meetingId \in rooms[lastOp'.socket]
         /\ lastOp'.peerId \in MembersOf(activePeers, lastOp'.meetingId) )
          => LET c == lastOp'.socket
                 m == lastOp'.meetingId
                 p == lastOp'.peerId
             IN  /\ p \notin MembersOf(activePeers', m)
                 /\ ~MapHas(socketToPeer', c)
                 /\ emitted' = {DisconnectedPacket(s, p) :
                                   s \in Subscribers(status, rooms, m) \ {c}}
                 /\ status'[c] = "open" /\ m \notin rooms'[c]
    ]_vars
    /\ [][( /\ lastOp.kind = "leave-voice-room"
            /\ JoinResumed
            /\ lastOp'.socket = lastOp.socket
            /\ lastOp'.arg = "active"
            /\ ~RoomFull(MembersOf(activePeers, lastOp'.meetingId)) )
             => /\ lastOp'.outcome = "joined"
                /\ MapGet(socketToPeer', lastOp'.socket) = lastOp'.peerId
       ]_vars

\* The second of two peers has left: the first, still in the group, is sent
\* peer-disconnected for it, the leaver is not, and the room is kept.
C19_Witness ==
    /\ lastOp.kind = "leave-voice-room" /\ lastOp.outcome = "room-kept"
    /\ lastOp.socket = "s2" /\ lastOp.peerId = "p2"
    /\ emitted = {DisconnectedPacket("s1", "p2")}
    /\ activePeers = MapSet(Empty, "M1", {"p1"})
    /\ socketToPeer = MapSet(Empty, "s1", "p1")
    /\ status["s2"] = "open"

\* C20: end-meeting(M), whoever sends it and whatever it has joined, sends
\* force-disconnect to each connection in M's group and to nobody else, and
\* changes neither the room table nor the index nor the groups: the members
\* stay until their own leave or disconnect.
C20_EndMeetingOnlyBroadcasts ==
    [][lastOp'.kind = "end-meeting" =>
          /\ emitted' = {Packet(s, "force-disconnect", Body) :
                            s \in Subscribers(status, rooms, lastOp'.meetingId)}
          /\ UNCHANGED <<activePeers, socketToPeer, rooms, status, pending>>
    ]_vars

\* A connection that never joined has ended a meeting with a member in it:
\* the member is sent force-disconnect and is still in the room.
C20_Witness ==
    /\ lastOp.kind = "end-meeting" /\ lastOp.socket = "s2"
    /\ ~MapHas(socketToPeer, "s2") /\ "M1" \notin rooms["s2"]
    /\ emitted = {Packet("s1", "force-disconnect", Body)}
    /\ activePeers = MapSet(Empty, "M1", {"p1"})
    /\ socketToPeer = MapSet(Empty, "s1", "p1")

SignalingEvents == RelayEvents \cup {"media-state-change"}

\* C21: webrtc-offer, webrtc-answer, ice-candidate and media-state-change
\* change neither the room table nor the index nor any connection's
\* lifecycle (its transport state and its groups), and a relay is forwarded
\* to the target's subscribers whether or not the sender has joined a room.
C21_SignalingChangesNothing ==
    [][lastOp'.kind \in SignalingEvents =>
          /\ UNCHANGED <<activePeers, socketToPeer, status, rooms, pending>>
          /\ lastOp'.kind \in RelayEvents =>
                 {pkt.to : pkt \in emitted'}
                     = Subscribers(status, rooms, lastOp'.meetingId)
    ]_vars

\* A connection that is bound to no peer and in no meeting's group has sent
\* an offer to a joined connection, and the offer went out to it.
C21_Witness ==
    /\ lastOp.kind = "webrtc-offer" /\ lastOp.socket = "s2" /\ lastOp.meetingId = "s1"
    /\ ~MapHas(socketToPeer, "s2") /\ rooms["s2"] = {"s2"}
    /\ MapGet(socketToPeer, "s1") = "p1"
    /\ \E pkt \in emitted : pkt.to = "s1" /\ pkt.event = "webrtc-offer"

\* C22: media-state-change(roomId) sends media-state-changed, carrying the
\* sender's own connection identifier, to each connection subscribed to
\* roomId but the sender, and to no connection outside roomId.
C22_MediaStateToRoomButSender ==
    [][lastOp'.kind = "media-state-change" =>
          emitted' = {Packet(s, "media-state-changed",
                             [Body EXCEPT !.socketId = lastOp'.socket,
                                          !.payload = lastOp'.arg]) :
                         s \in Subscribers(status, rooms, lastOp'.meetingId)
                                  \ {lastOp'.socket}}
    ]_vars

\* Two connections are in the meeting's group and one has sent its media
\* state: the other is sent it, the sender is not.
C22_Witness ==
    /\ lastOp.kind = "media-state-change" /\ lastOp.socket = "s1"
    /\ Subscribers(status, rooms, lastOp.meetingId) = {"s1", "s2"}
    /\ {pkt.to : pkt \in emitted} = {"s2"}
    /\ \A pkt \in emitted : pkt.body.socketId = "s1"

\* Every handler of open connection d can run now: its join (as long as
\* the number of lookups in flight is below the bound of the model), its
\* leave, its relay, its media state, its end-meeting and its disconnect.
Processable(d) ==
    /\ \A j \in OneRoom.joins :
           (Cardinality(pending) < MaxPending /\ Request(d, j[1], j[2]) \notin pending)
               => ENABLED JoinVoiceRoom(d, j[1], j[2])
    /\ \A l \in OneRoom.leaves : ENABLED LeaveVoiceRoom(d, l[1], l[2])
    /\ \A e \in OneRoom.events, tg \in OneRoom.targets, x \in Payloads :
           ENABLED Relay(d, e, tg, x)
    /\ \A m \in OneRoom.mediaRooms, x \in Payloads : ENABLED MediaStateChange(d, m, x)
    /\ \A m \in OneRoom.ends : ENABLED EndMeeting(d, m)
    /\ ENABLED Disconnect(d)

\* C23: while a connection's join waits for the meeting lookup, the handlers
\* of every other open connection can run; starting the lookup changes no
\* shared state and sends nothing; and the lookup's completion resumes the
\* join of the connection that started it and of no other: the other
\* requests stay pending, and no other connection is bound or put in a group.
C23_LookupDoesNotBlock ==
    /\ [](\A req \in pending :
              \A d \in SocketIds \ {req.socket} : status[d] = "open" => Processable(d))
    /\ [][lastOp'.kind = "join-voice-room" =>
              /\ UNCHANGED <<activePeers, socketToPeer, status, rooms>>
              /\ emitted' = {}
       ]_vars
    /\ [][JoinResumed =>
              LET req == Request(lastOp'.socket, lastOp'.meetingId, lastOp'.peerId)
              IN  /\ req \in pending
                  /\ pending' = pending \ {req}
                  /\ \A d \in SocketIds \ {req.socket} :
                         /\ rooms'[d] = rooms[d]
                         /\ MapGet(socketToPeer', d) = MapGet(socketToPeer, d)
       ]_vars

\* While s1's join waits for its lookup, s2 has joined and then left: both
\* of its handlers ran with s1's request still pending.
C23_Witness ==
    /\ Request("s1", "M1", "p1") \in pending
    /\ lastOp.kind = "leave-voice-room" /\ lastOp.socket = "s2"
    /\ lastOp.outcome = "room-deleted" /\ lastOp.peerId = "p2"
    /\ status["s1"] = "open" /\ ~MapHas(socketToPeer, "s1")

\* C24: a join(M, P) resumed for a connection that is already bound to P
\* and in M's group, with P in M's room, either is refused with a
\* voice-error to the joiner, or changes neither the room table nor the
\* index and sends no peer-joined.
C24_RejoinRejectedOrNoOp ==
    [][( /\ JoinResumed
         /\ MapGet(socketToPeer, lastOp'.socket) = lastOp'.peerId
         /\ lastOp'.meetingId \in rooms[lastOp'.socket]
         /\ lastOp'.peerId \in MembersOf(activePeers, lastOp'.meetingId) )
          => \/ \E message \in VoiceErrorMessages : OnlyErrorToJoiner(message)
             \/ /\ UNCHANGED <<activePeers, socketToPeer>>
                /\ \A pkt \in emitted' : pkt.event # "peer-joined"
    ]_vars

\* C25: the peers of the voice-joined sent for a successful join(M, P) are
\* the members M's room had just before this join put P in, whatever the
\* room held then, P itself included.
C25_VoiceJoinedListsPriorMembers ==
    [][(JoinResumed /\ lastOp'.outcome = "joined") =>
          \A pkt \in emitted' :
              pkt.event = "voice-joined" =>
                  pkt.body.peers = MembersOf(activePeers, lastOp'.meetingId)
    ]_vars

\* C26: every packet a webrtc-offer, webrtc-answer or ice-candidate handler
\* sends has the event name of the request, carries as senderSocketId the
\* identifier of the connection the handler ran for, which is no field of
\* the request, and carries the request's payload as it came.
C26_RelayStampsSender ==
    [][lastOp'.kind \in RelayEvents =>
          \A pkt \in emitted' :
              /\ pkt.event = lastOp'.kind
              /\ pkt.body = [Body EXCEPT !.senderSocketId = lastOp'.socket,
                                         !.payload = lastOp'.arg]
    ]_vars

\* s2 has sent an ICE candidate to s1: the packet to s1 names s2 as its
\* sender and carries the candidate.
C26_Witness ==
    /\ lastOp.kind = "ice-candidate" /\ lastOp.socket = "s2" /\ lastOp.meetingId = "s1"
    /\ emitted = {Packet("s1", "ice-candidate",
                         [Body EXCEPT !.senderSocketId = "s2", !.payload = "sdp"])}

\* C27: in every state with no join waiting for its lookup, each peer id in
\* a room's peer set is the bound peer of some open connection.
C27_NoGhostMembers ==
    pending = {} =>
        \A m \in DOMAIN activePeers :
            \A p \in activePeers[m] :
                \E c \in DOMAIN socketToPeer :
                    status[c] = "open" /\ socketToPeer[c] = p

\* No connection is open and no join waits for its lookup.
AllGone == pending = {} /\ \A s \in SocketIds : status[s] # "open"

\* C28: once every connection has disconnected and every pending lookup has
\* completed, the room table comes to have no entry and the index no binding.
C28_NoLeak ==
    AllGone ~> (activePeers = Empty /\ socketToPeer = Empty)

\* C29: a leave-voice-room(M, P) from a connection that is not the one bound
\* to P takes P out of no room and sends no peer-disconnected(P): a
\* connection cannot remove a peer that another open connection joined.
C29_LeaveOnlyByBoundConnection ==
    [][( /\ lastOp'.kind = "leave-voice-room"
         /\ MapGet(socketToPeer, lastOp'.socket) # lastOp'.peerId )
          => /\ lastOp'.peerId \in MembersOf(activePeers, lastOp'.meetingId)
                    => lastOp'.peerId \in MembersOf(activePeers', lastOp'.meetingId)
             /\ \A s \in SocketIds : DisconnectedPacket(s, lastOp'.peerId) \notin emitted'
    ]_vars

\* C30: when connection c, bound to P and in no group but its own meeting's,
\* disconnects, a member P of another meeting M2 that a different, still
\* open connection d joined there stays in M2's room, and d, which shares no
\* group with c, is sent no peer-disconnected(P).
C30_DisconnectSparesOtherMeeting ==
    [][lastOp'.kind = "disconnect" =>
          LET c == lastOp'.socket
              P == MapGet(socketToPeer, c)
          IN  \A m2 \in MeetingIds \ rooms[c], d \in SocketIds \ {c} :
                  ( /\ MapHas(socketToPeer, c)
                    /\ status[d] = "open" /\ MapGet(socketToPeer, d) = P
                    /\ m2 \in rooms[d] /\ rooms[d] \cap rooms[c] = {}
                    /\ P \in MembersOf(activePeers, m2) )
                      => /\ P \in MembersOf(activePeers', m2)
                         /\ DisconnectedPacket(d, P) \notin emitted'
    ]_vars

\* C31: in every state with no handler under way (no join waiting for its
\* lookup), the peer the index binds to an open connection is in the peer
\* set of at least one room.
C31_BoundMeansInRoom ==
    pending = {} =>
        \A c \in DOMAIN socketToPeer :
            status[c] = "open" => ~InNoRoom(activePeers, socketToPeer[c])

\* C32: in every state with no handler under way, an open connection is in
\* meeting M's group exactly when it is bound to a peer that is in M's
\* room, so that what is broadcast to M's group reaches M's members and
\* nobody else.
C32_GroupAgreesWithRoom ==
    pending = {} =>
        \A c \in SocketIds, m \in MeetingIds :
            status[c] = "open" =>
                (m \in rooms[c]
                    <=> (MapHas(socketToPeer, c)
                            /\ socketToPeer[c] \in MembersOf(activePeers, m)))

\* The replies that tell a joiner how its join ended.
JoinOutcomes == {"voice-joined", "voice-error"}

\* C33: each join whose lookup has completed, whatever it came back with,
\* sends the joiner one outcome, a voice-joined or a voice-error, not both
\* and not neither; and a join that sent voice-error put no peer in any room.
C33_OneOutcomePerJoin ==
    [][JoinResumed =>
          LET outcomes == {pkt \in emitted' :
                              pkt.to = lastOp'.socket /\ pkt.event \in JoinOutcomes}
          IN  /\ Cardinality(outcomes) = 1
              /\ Cardinality({pkt.event : pkt \in outcomes}) = 1
              /\ (\E pkt \in outcomes : pkt.event = "voice-error")
                     => \A m \in MeetingIds :
                            MembersOf(activePeers', m) = MembersOf(activePeers, m)
    ]_vars

\* A lookup has failed for a join of a room with members: the joiner was
\* sent the error and no voice-joined, and the room is as it was.
C33_Witness ==
    /\ lastOp.kind = "join-resume" /\ lastOp.arg = "throws"
    /\ {pkt.event : pkt \in {q \in emitted : q.to = lastOp.socket}} = {"voice-error"}
    /\ Fillers \subseteq MembersOf(activePeers, lastOp.meetingId)
    /\ lastOp.peerId \notin MembersOf(activePeers, lastOp.meetingId)

\* C34: in the room-participants sent to a joiner, the socketId of each
\* entry is the identifier of an open connection bound to that entry's
\* participant, so that a relay addressed to it reaches the participant; and
\* the socketId of each participant-joined is the joiner's identifier.
C34_ParticipantSocketIds ==
    [][(JoinResumed /\ lastOp'.outcome = "joined") =>
          \A pkt \in emitted' :
              /\ pkt.event = "room-participants" =>
                     \A entry \in pkt.body.participants :
                         /\ entry.socketId \in SocketIds
                         /\ status'[entry.socketId] = "open"
                         /\ MapGet(socketToPeer', entry.socketId) = entry.odiserId
                         /\ Subscribers(status', rooms', entry.socketId)
                                = {entry.socketId}
              /\ pkt.event = "participant-joined" =>
                     pkt.body.socketId = lastOp'.socket
    ]_vars

====
